---- MODULE Spec2Model ----
(***************************************************************************)
(* Model of lib/helpers.js of athena-express: the execution launcher       *)
(* (startQueryExecution), the completion poller                            *)
(* (checkIfExecutionCompleted), the result retriever                       *)
(* (getQueryResultsFromS3) and the row materializer (addDataType).         *)
(*                                                                         *)
(* The query engine and the object store are the environment.  The         *)
(* engine's answers to the submission attempts are fixed up front          *)
(* (lplan); its answers to status requests are drawn when they arrive.     *)
(***************************************************************************)
EXTENDS Integers, Sequences, FiniteSets, TLC

VARIABLES
    lplan,      \* the engine's answers to the submission attempts still to come
    lpc,        \* startQueryExecution: idle, inflight, timer, resolved, rejected
    lsent,      \* StartQueryExecutionCommand requests sent so far
    ltimer,     \* delay of the launcher's pending setTimeout (0: none)
    lwaited,    \* total delay of the launcher's timers that fired
    lresult,    \* value the launcher's promise settled with
    lchain,     \* the launcher's requests in flight, timers pending and
                \* calls of resolve or reject so far
    cfgRetry,   \* config.retry, the caller's poll interval
    retry,      \* checkIfExecutionCompleted: the local `retry`
    ppc,        \* checkIfExecutionCompleted: idle, inflight, timer, resolved, rejected
    psent,      \* GetQueryExecutionCommand requests sent so far
    ptimer,     \* delay of the poller's pending setTimeout (0: none)
    pwaited,    \* total delay of the poller's timers that fired
    pnonterm,   \* answers with a status other than SUCCEEDED and FAILED so far
    pfaults,    \* transient faults answered to status requests so far
    plast,      \* the engine's latest answer to a status request
    presolved,  \* data the poller's promise resolved with
    prejected,  \* value the poller's promise was rejected with
    pchain,     \* the poller's requests in flight, timers pending and
                \* calls of resolve or reject so far
    s3Metadata, \* context.s3Metadata: unset, pending, fulfilled, rejected
    s3MetaErr,  \* the fault context.s3Metadata was rejected with
    metaSent,   \* GetQueryResultsCommand requests with MaxResults 1 sent so far
    nrows,      \* data rows of the result set the engine holds
    malformed,  \* the result set has a cell that its declared type cannot take
    blob,       \* lines of the result blob of a DDL or utility statement
    rpc,        \* getQueryResultsFromS3: idle, s3get, page, types, meta,
                \* returned, threw, hung, crashed
    ropt,       \* params of the latest getQueryResultsFromS3 call
    freshMeta,  \* the metadata request of getQueryResultsFromS3: none,
                \* pending, fulfilled, rejected
    freshErr,   \* the fault that request was rejected with
    qr,         \* queryResults of the paginated branch
    ritems,     \* items of the returned object
    rnext,      \* nextToken of the returned object
    rmeta,      \* metadata of the returned object
    rerror,     \* what getQueryResultsFromS3 threw
    pageSent,   \* GetQueryResultsCommand page requests sent so far
    s3Sent,     \* GetObjectCommand requests sent so far
    rbefore,    \* items the consecutive pages before this call returned
    mcols,      \* the materializer alone: ColumnInfo of its input
    mrow,       \* the materializer alone: Data of the row of its input
    mrec,       \* the materializer alone: the record it produced
    mpath       \* the materializer alone: none, paginated, delimited,
                \* delimitedIgnoreEmpty

lvars == <<lplan, lpc, lsent, ltimer, lwaited, lresult, lchain>>

pvars == <<cfgRetry, retry, ppc, psent, ptimer, pwaited, pnonterm, pfaults,
           plast, presolved, prejected, pchain>>

cvars == <<s3Metadata, s3MetaErr, metaSent>>

rvars == <<nrows, malformed, blob, rpc, ropt, freshMeta, freshErr, qr,
           ritems, rnext, rmeta, rerror, pageSent, s3Sent, rbefore>>

mvars == <<mcols, mrow, mrec, mpath>>

----------------------------------------------------------------------------
\* Bounds of the model.

\* most transient faults the engine gives to the submission attempts
MaxFaults == 2

\* most status requests of one checkIfExecutionCompleted call
MaxPolls == 3

\* most data rows of a result set
MaxRows == 5

\* largest config.pagination
MaxPage == 2

----------------------------------------------------------------------------
\* Values.

None == "none"

Ids == {"q1", "q2"}

\* err.code of the faults the engine can answer with; NoCode is a fault
\* object that has no code property
TransientCodes ==
    {"TooManyRequestsException", "ThrottlingException", "NetworkingError",
     "UnknownEndpoint"}

FatalCodes == {"InvalidRequestException", "NoCode"}

FaultCodes == TransientCodes \cup FatalCodes

\* variant: a delay ten times shorter
ThrottleWaitShort == 2000 \div 10

\* delay of the retry after a transient fault
ThrottleWait == 2000

\* values of config.retry: below and above the delay after a fault
RetryChoices == {200, 5000}

Reasons == {"SYNTAX_ERROR: line 1", "Insufficient permissions"}

\* answers of GetQueryExecutionCommand: QueryExecution.Status
NonTerminalStates == {"RUNNING", "QUEUED", "CANCELLED"}

StatusAnswers ==
    {[State |-> st, StateChangeReason |-> None] :
        st \in NonTerminalStates \cup {"SUCCEEDED"}}
    \cup {[State |-> "FAILED", StateChangeReason |-> r] : r \in Reasons}

NoData == [State |-> None, StateChangeReason |-> None]

\* the latest answer: a status (kind "status", its State and
\* StateChangeReason) or a fault (kind "fault", its code)
NoAnswer == [kind |-> None, State |-> None, detail |-> None]
StatusAnswer(data) ==
    [kind |-> "status", State |-> data.State,
     detail |-> data.StateChangeReason]
FaultAnswer(err) == [kind |-> "fault", State |-> None, detail |-> err]

\* variants of the classification: one that forgets the networking faults,
\* one that takes every fault for a transient one
isCommonAthenaErrorShort(err) ==
    err = "TooManyRequestsException" \/ err = "ThrottlingException"

isCommonAthenaErrorAll(err) == err \in FaultCodes

isCommonAthenaError(err) ==
    IF err = "TooManyRequestsException" \/ err = "ThrottlingException"
          \/ err = "NetworkingError" \/ err = "UnknownEndpoint"
    THEN TRUE ELSE FALSE

----------------------------------------------------------------------------
\* JavaScript values.  A string is the sequence of its characters.

JsNull == [k |-> "null", s |-> <<>>, n |-> 0, b |-> FALSE]
JsString(str) == [k |-> "string", s |-> str, n |-> 0, b |-> FALSE]
JsBool(v) == [k |-> "boolean", s |-> <<>>, n |-> 0, b |-> v]
JsNumber(v) == [k |-> "number", s |-> <<>>, n |-> v, b |-> FALSE]
JsNaN == [k |-> "NaN", s |-> <<>>, n |-> 0, b |-> FALSE]
JsBigInt(v) == [k |-> "bigint", s |-> <<>>, n |-> v, b |-> FALSE]
\* not a value: the evaluation threw a SyntaxError
JsThrow == [k |-> "SyntaxError", s |-> <<>>, n |-> 0, b |-> FALSE]

Digits == <<"0", "1", "2", "3", "4", "5", "6", "7", "8", "9">>

IsDigit(c) == \E d \in 1..10 : Digits[d] = c

DigitValue(c) == (CHOOSE d \in 1..10 : Digits[d] = c) - 1

IsDigits(str) == Len(str) > 0 /\ \A i \in 1..Len(str) : IsDigit(str[i])

RECURSIVE DigitsValue(_)
DigitsValue(str) ==
    IF str = <<>> THEN 0
    ELSE 10 * DigitsValue(SubSeq(str, 1, Len(str) - 1))
            + DigitValue(str[Len(str)])

Upper == <<"A", "E", "F", "L", "R", "S", "T", "U">>
Lower == <<"a", "e", "f", "l", "r", "s", "t", "u">>

\* String.prototype.toLowerCase, on the letters of the model's cells
toLowerCase(str) ==
    [i \in 1..Len(str) |->
        IF \E u \in 1..Len(Upper) : Upper[u] = str[i]
        THEN Lower[CHOOSE u \in 1..Len(Upper) : Upper[u] = str[i]]
        ELSE str[i]]

\* JSON.parse of a text without white space, quotes, brackets or fraction:
\* a literal, an integer, or a SyntaxError
JSONparse(str) ==
    IF str = <<"t", "r", "u", "e">> THEN JsBool(TRUE)
    ELSE IF str = <<"f", "a", "l", "s", "e">> THEN JsBool(FALSE)
    ELSE IF str = <<"n", "u", "l", "l">> THEN JsNull
    ELSE IF IsDigits(str) /\ (Len(str) = 1 \/ str[1] # "0")
    THEN JsNumber(DigitsValue(str))
    ELSE IF Len(str) > 1 /\ str[1] = "-" /\ IsDigits(Tail(str))
            /\ (Len(str) = 2 \/ str[2] # "0")
    THEN JsNumber(0 - DigitsValue(Tail(str)))
    ELSE JsThrow

\* BigInt(string) of a non-empty string without white space
BigInt(str) ==
    IF IsDigits(str) THEN JsBigInt(DigitsValue(str))
    ELSE IF Len(str) > 1 /\ str[1] \in {"-", "+"} /\ IsDigits(Tail(str))
    THEN JsBigInt(IF str[1] = "-" THEN 0 - DigitsValue(Tail(str))
                  ELSE DigitsValue(Tail(str)))
    ELSE JsThrow

\* Number(string) of a non-empty string without white space or fraction
Number(str) ==
    IF IsDigits(str) THEN JsNumber(DigitsValue(str))
    ELSE IF Len(str) > 1 /\ str[1] \in {"-", "+"} /\ IsDigits(Tail(str))
    THEN JsNumber(IF str[1] = "-" THEN 0 - DigitsValue(Tail(str))
                  ELSE DigitsValue(Tail(str)))
    ELSE JsNaN

----------------------------------------------------------------------------
\* The result set the engine holds for the execution.

\* ResultSet.ResultSetMetadata.ColumnInfo
ColumnInfo ==
    << [Name |-> "a", Type |-> "bigint"],
       [Name |-> "b", Type |-> "boolean"],
       [Name |-> "c", Type |-> "varchar"] >>

\* a Datum of a row: {VarCharValue: v}, or {} for a null cell
Datum(v) == [has |-> TRUE, VarCharValue |-> v]
NoDatum == [has |-> FALSE, VarCharValue |-> <<>>]

RowPool ==
    << <<Datum(<<"4", "2">>), Datum(<<"T", "R", "U", "E">>), Datum(<<>>)>>,
       <<Datum(<<"7">>), Datum(<<"f", "a", "l", "s", "e">>), Datum(<<"x">>)>>,
       <<NoDatum, Datum(<<"T", "r", "u", "e">>), Datum(<<"y", "z">>)>> >>

\* the data row that holds the malformed cell of a malformed result set, and
\* its Data: a text that is no boolean in the boolean column
MalformedRow == 2

MalformedData ==
    <<Datum(<<"7">>), Datum(<<"m", "a", "y", "b", "e">>), Datum(<<"x">>)>>

\* the header row the engine puts first: the column names
HeaderRow == [j \in 1..Len(ColumnInfo) |-> Datum(<<ColumnInfo[j].Name>>)]

\* ResultSet.Rows of the whole result, counted from 1: the header, then the
\* data rows
EngineRow(i) ==
    IF i = 1 THEN HeaderRow
    ELSE IF malformed /\ i = MalformedRow + 1 THEN MalformedData
    ELSE RowPool[((i - 2) % Len(RowPool)) + 1]

\* the cursor of a first page; a cursor is the number of rows already served
NoToken == 0

Min(x, y) == IF x < y THEN x ELSE y

\* GetQueryResultsCommand({MaxResults, NextToken}) on a result of rows data
\* rows: the indices of the rows of the page, and the next cursor
EnginePage(rows, MaxResults, NextToken) ==
    LET total == rows + 1
        last == Min(NextToken + MaxResults, total)
    IN  [Rows |-> [i \in 1..(last - NextToken) |-> NextToken + i],
         NextToken |-> IF last < total THEN last ELSE NoToken]

----------------------------------------------------------------------------
\* The row materializer.  An object whose key order matters is the sequence
\* of its [key, val] properties in insertion order (no column name of the
\* model is an array index); a row object is a function from its keys.

ObjHas(obj, key) == \E i \in 1..Len(obj) : obj[i].key = key

ObjGet(obj, key) ==
    IF ObjHas(obj, key)
    THEN obj[CHOOSE i \in 1..Len(obj) : obj[i].key = key].val
    ELSE "undefined"

\* obj[key] = val
ObjSet(obj, key, val) ==
    IF ObjHas(obj, key)
    THEN [i \in 1..Len(obj) |->
            IF obj[i].key = key THEN [key |-> key, val |-> val] ELSE obj[i]]
    ELSE Append(obj, [key |-> key, val |-> val])

ObjectKeys(obj) == [i \in 1..Len(obj) |-> obj[i].key]

reverse(seq) == [i \in 1..Len(seq) |-> seq[Len(seq) + 1 - i]]

\* the loop of getDataTypes, from the last column down to the first
RECURSIVE columnInfoObjectFrom(_, _, _)
columnInfoObjectFrom(columnInfoArray, columnInfoArrayLength, columnInfoObject) ==
    IF columnInfoArrayLength = 0 THEN columnInfoObject
    ELSE columnInfoObjectFrom(columnInfoArray, columnInfoArrayLength - 1,
            ObjSet(columnInfoObject,
                   columnInfoArray[columnInfoArrayLength].Name,
                   columnInfoArray[columnInfoArrayLength].Type))

\* what getDataTypes resolves with once context.s3Metadata is fulfilled
getDataTypes(columnInfoArray) ==
    columnInfoObjectFrom(columnInfoArray, Len(columnInfoArray), <<>>)

NumberTypes == {"integer", "tinyint", "smallint", "int", "float", "double"}

\* the value addDataType stores for one property of its input
typedValue(type, str) ==
    IF str = <<>> THEN JsNull
    ELSE IF type = "varchar" THEN JsString(str)
    ELSE IF type = "boolean" THEN JSONparse(toLowerCase(str))
    ELSE IF type = "bigint" THEN BigInt(str)
    ELSE IF type \in NumberTypes THEN Number(str)
    ELSE JsString(str)

addDataType(input, dataTypes) ==
    [key \in DOMAIN input |-> typedValue(ObjGet(dataTypes, key), input[key])]

\* addDataType threw on one of the properties
Threw(record) == \E key \in DOMAIN record : record[key] = JsThrow

\* columnNames[j] of cleanUpPaginatedDML, j counted from 1
columnNameAt(columnNames, j) ==
    IF j <= Len(columnNames) THEN columnNames[j] ELSE "undefined"

\* rowObject of cleanUpPaginatedDML after the inner loop over one row's Data
rowObjectOf(Data, columnNames) ==
    LET set == {j \in 1..Len(Data) : Data[j].has}
        keys == {columnNameAt(columnNames, j) : j \in set}
        lastOf(key) ==
            CHOOSE j \in set :
                /\ columnNameAt(columnNames, j) = key
                /\ \A h \in set : columnNameAt(columnNames, h) = key => h <= j
    IN  [key \in keys |-> Data[lastOf(key)].VarCharValue]

\* what cleanUpPaginatedDML pushes to formattedArray for one row
formattedRow(Data, columnInfoArray) ==
    LET dataTypes == getDataTypes(columnInfoArray)
        columnNames == reverse(ObjectKeys(dataTypes))
    IN  addDataType(rowObjectOf(Data, columnNames), dataTypes)

\* formattedArray of cleanUpPaginatedDML; Rows are indices of engine rows
cleanUpPaginatedDML(Rows, paginationFactor, columnInfoArray) ==
    [i \in 1..(Len(Rows) - paginationFactor) |->
        formattedRow(EngineRow(Rows[i + paginationFactor]), columnInfoArray)]

\* The result blob in the object store is the delimited text of the same
\* result: line 1 the column names, then one line per data row, a null cell
\* written as an empty field.  csvtojson emits one object per data line,
\* keyed by the names of line 1; with ignoreEmpty it leaves the empty fields
\* out.
csvObjectOf(Data, columnInfoArray, ignoreEmpty) ==
    LET kept == {j \in 1..Len(columnInfoArray) :
                    ~(ignoreEmpty /\ Data[j].VarCharValue = <<>>)}
        at(key) ==
            CHOOSE j \in kept :
                /\ columnInfoArray[j].Name = key
                /\ \A h \in kept : columnInfoArray[h].Name = key => h <= j
    IN  [key \in {columnInfoArray[j].Name : j \in kept} |->
            Data[at(key)].VarCharValue]

csvObject(line, ignoreEmpty) ==
    csvObjectOf(EngineRow(line), ColumnInfo, ignoreEmpty)

\* cleanJson of cleanUpDML for a blob with rows data lines
cleanUpDML(rows, ignoreEmpty, columnInfoArray) ==
    LET dataTypes == getDataTypes(columnInfoArray)
    IN  [i \in 1..rows |-> addDataType(csvObject(i + 1, ignoreEmpty), dataTypes)]

\* rawJson of getRawResultsFromS3: the lines of the blob, each the sequence
\* of its fields
getRawResultsFromS3(rows) ==
    [i \in 1..(rows + 1) |->
        [j \in 1..Len(ColumnInfo) |-> EngineRow(i)[j].VarCharValue]]

----------------------------------------------------------------------------
\* cleanUpNonDML: the lines of the blob of a DDL or utility statement.

WhiteSpace == {" ", "\t"}

RECURSIVE trimStart(_)
trimStart(str) ==
    IF str # <<>> /\ str[1] \in WhiteSpace THEN trimStart(Tail(str)) ELSE str

trim(str) == reverse(trimStart(reverse(trimStart(str))))

\* line.indexOf("\t"), counted from 0; -1 when there is none
indexOfTab(line) ==
    IF \E i \in 1..Len(line) : line[i] = "\t"
    THEN (CHOOSE i \in 1..Len(line) :
            line[i] = "\t" /\ \A h \in 1..(i - 1) : line[h] # "\t") - 1
    ELSE -1

\* line.split("\t")[1]: the text between the first tab and the next one
secondField(line) ==
    LET rest == SubSeq(line, indexOfTab(line) + 2, Len(line))
    IN  IF indexOfTab(rest) = -1 THEN rest
        ELSE SubSeq(rest, 1, indexOfTab(rest))

RECURSIVE cleanUpNonDML(_)
cleanUpNonDML(lines) ==
    IF lines = <<>> THEN <<>>
    ELSE LET line == lines[Len(lines)]
             before == cleanUpNonDML(SubSeq(lines, 1, Len(lines) - 1))
         IN  IF indexOfTab(line) > 0
             THEN Append(before,
                         [key |-> trim(SubSeq(line, 1, indexOfTab(line))),
                          val |-> trim(secondField(line))])
             ELSE IF Len(trim(line)) # 0
             THEN Append(before,
                         [key |-> <<"r", "o", "w">>, val |-> trim(line)])
             ELSE before

\* blobs of DDL and utility statements
NonDMLBlob ==
    << <<"k", "e", "y", "\t", "v", "a", "l", "u", "e">>,
       <<>>,
       <<"s", "i", "n", "g", "l", "e", "t", "o", "k", "e", "n">>,
       <<" ", " ">>,
       <<" ", "p", " ", "\t", " ", "q", "\t", "r">> >>

NonDMLBlobs ==
    { NonDMLBlob,
      << <<"k", "e", "y", "\t", "v", "a", "l", "u", "e">>,
         <<>>,
         <<"s", "i", "n", "g", "l", "e", "t", "o", "k", "e", "n">> >>,
      << <<"a", "\t", "b">>, <<" ", "\t", " ">>, <<"\t", "x">> >> }

----------------------------------------------------------------------------
\* Sequences of at most n transient faults.

RECURSIVE TransientRuns(_)
TransientRuns(n) ==
    IF n = 0 THEN {<<>>}
    ELSE LET shorter == TransientRuns(n - 1)
         IN  shorter \cup
             {Append(s, c) : s \in {t \in shorter : Len(t) = n - 1},
                             c \in TransientCodes}

\* What the engine does with the submission attempts: some transient faults,
\* then one more answer (an id, or any fault).
SubmitPlans ==
    {s \o <<r>> : s \in TransientRuns(MaxFaults), r \in Ids \cup FaultCodes}

----------------------------------------------------------------------------
\* startQueryExecution

\* What one invocation has outstanding, and how often it settled its promise.
NoChain == [requests |-> 0, timers |-> 0, settles |-> 0]

\* `athenaClient.send(...)` is called
requestSent(chain) == [chain EXCEPT !.requests = @ + 1]

\* the awaited request is answered, with data or with a fault
requestAnswered(chain) == [chain EXCEPT !.requests = @ - 1]

\* `setTimeout(...)` is called
timerSet(chain) == [chain EXCEPT !.timers = @ + 1]

\* variant: an interval timer, still pending after its callback ran
timerKept(chain) == chain

\* the callback of a setTimeout timer runs: the timer is no longer pending
timerFired(chain) == [chain EXCEPT !.timers = @ - 1]

\* `resolve(...)` or `reject(...)` is called
settleCalled(chain) == [chain EXCEPT !.settles = @ + 1]

LInit ==
    /\ lplan \in SubmitPlans
    /\ lpc = "idle"
    /\ lsent = 0
    /\ ltimer = 0
    /\ lwaited = 0
    /\ lresult = None
    /\ lchain = NoChain

\* the call: the promise executor runs startQueryExecutionRecursively once
StartQueryExecution ==
    /\ lpc = "idle"
    /\ lpc' = "inflight"
    /\ lsent' = lsent + 1
    /\ lchain' = requestSent(lchain)
    /\ UNCHANGED <<lplan, ltimer, lwaited, lresult>>

\* the continuation of `await athenaClient.send(StartQueryExecutionCommand)`
SubmitSettles ==
    /\ lpc = "inflight"
    /\ lplan # <<>>
    /\ LET r == Head(lplan) IN
         /\ lplan' = Tail(lplan)
         /\ IF r \in Ids
            THEN /\ lpc' = "resolved"
                 /\ lresult' = r
                 /\ ltimer' = 0
                 /\ lchain' = settleCalled(requestAnswered(lchain))
            ELSE IF isCommonAthenaError(r)
            THEN /\ lpc' = "timer"
                 /\ ltimer' = ThrottleWait
                 /\ lresult' = lresult
                 /\ lchain' = timerSet(requestAnswered(lchain))
            ELSE /\ lpc' = "rejected"
                 /\ lresult' = r
                 /\ ltimer' = 0
                 /\ lchain' = settleCalled(requestAnswered(lchain))
    /\ UNCHANGED <<lsent, lwaited>>

\* the setTimeout callback: startQueryExecutionRecursively again
SubmitTimerFires ==
    /\ lpc = "timer"
    /\ lpc' = "inflight"
    /\ lsent' = lsent + 1
    /\ lwaited' = lwaited + ltimer
    /\ ltimer' = 0
    /\ lchain' = requestSent(timerFired(lchain))
    /\ UNCHANGED <<lplan, lresult>>

LaunchNext == StartQueryExecution \/ SubmitSettles \/ SubmitTimerFires

----------------------------------------------------------------------------
\* checkIfExecutionCompleted

\* variant: rejects with the state instead of the reason
failureReasonState(data) == data.State

\* what the promise is rejected with on FAILED
failureReason(data) == data.StateChangeReason

\* variant: CANCELLED taken for a failure
failedOrCancelled(state) == state \in {"FAILED", "CANCELLED"}

\* the test of the else-if branch
failedState(state) == state = "FAILED"

\* variant: the fixed delay whatever the status
statusDelayFixed(r) == ThrottleWait

\* the delay of the setTimeout after a status that is not terminal
statusDelay(r) == r

PInit ==
    /\ cfgRetry = 0
    /\ retry = 0
    /\ ppc = "idle"
    /\ psent = 0
    /\ ptimer = 0
    /\ pwaited = 0
    /\ pnonterm = 0
    /\ pfaults = 0
    /\ plast = NoAnswer
    /\ presolved = NoData
    /\ prejected = None
    /\ pchain = NoChain

CInit ==
    /\ s3Metadata = "unset"
    /\ s3MetaErr = None
    /\ metaSent = 0

\* the call, with config.QueryExecutionId the launcher's id: `let retry =
\* config.retry`, then the promise executor runs keepCheckingRecursively once
CheckIfExecutionCompleted ==
    /\ lpc = "resolved"
    /\ ppc = "idle"
    /\ \E t \in RetryChoices :
         /\ cfgRetry' = t
         /\ retry' = t
    /\ ppc' = "inflight"
    /\ psent' = psent + 1
    /\ pchain' = requestSent(pchain)
    /\ UNCHANGED <<ptimer, pwaited, pnonterm, pfaults, plast, presolved,
                   prejected>>
    /\ UNCHANGED <<lvars, cvars, rvars>>

\* the try branch: the continuation of
\* `await athenaClient.send(GetQueryExecutionCommand)`
StatusSettles ==
    /\ ppc = "inflight"
    /\ \E data \in StatusAnswers :
         /\ plast' = StatusAnswer(data)
         /\ IF data.State = "SUCCEEDED"
            THEN /\ retry' = cfgRetry
                 /\ s3Metadata' = "pending"
                 /\ metaSent' = metaSent + 1
                 /\ ppc' = "resolved"
                 /\ presolved' = data
                 /\ ptimer' = 0
                 /\ pchain' = settleCalled(requestAnswered(pchain))
                 /\ UNCHANGED <<prejected, pnonterm, s3MetaErr>>
            ELSE IF failedState(data.State)
            THEN /\ ppc' = "rejected"
                 /\ prejected' = failureReason(data)
                 /\ ptimer' = 0
                 /\ pchain' = settleCalled(requestAnswered(pchain))
                 /\ UNCHANGED <<retry, presolved, pnonterm, cvars>>
            ELSE /\ ppc' = "timer"
                 /\ ptimer' = statusDelay(retry)
                 /\ pnonterm' = pnonterm + 1
                 /\ pchain' = timerSet(requestAnswered(pchain))
                 /\ UNCHANGED <<retry, presolved, prejected, cvars>>
    /\ UNCHANGED <<cfgRetry, psent, pwaited, pfaults>>
    /\ UNCHANGED <<lvars, rvars>>

\* the catch branch
StatusFaults ==
    /\ ppc = "inflight"
    /\ \E err \in FaultCodes :
         /\ plast' = FaultAnswer(err)
         /\ IF isCommonAthenaError(err)
            THEN /\ retry' = ThrottleWait
                 /\ ppc' = "timer"
                 /\ ptimer' = retry'
                 /\ pfaults' = pfaults + 1
                 /\ pchain' = timerSet(requestAnswered(pchain))
                 /\ UNCHANGED prejected
            ELSE /\ ppc' = "rejected"
                 /\ prejected' = err
                 /\ ptimer' = 0
                 /\ pchain' = settleCalled(requestAnswered(pchain))
                 /\ UNCHANGED <<retry, pfaults>>
    /\ UNCHANGED <<cfgRetry, psent, pwaited, pnonterm, presolved>>
    /\ UNCHANGED <<lvars, cvars, rvars>>

\* the setTimeout callback: keepCheckingRecursively again
PollTimerFires ==
    /\ ppc = "timer"
    /\ psent < MaxPolls
    /\ ppc' = "inflight"
    /\ psent' = psent + 1
    /\ pwaited' = pwaited + ptimer
    /\ ptimer' = 0
    /\ pchain' = requestSent(timerFired(pchain))
    /\ UNCHANGED <<cfgRetry, retry, pnonterm, pfaults, plast, presolved,
                   prejected>>
    /\ UNCHANGED <<lvars, cvars, rvars>>

PollNext ==
    CheckIfExecutionCompleted \/ StatusSettles \/ StatusFaults
        \/ PollTimerFires

----------------------------------------------------------------------------
\* The schema-warming request the poller stored in context.s3Metadata.

MetadataFaults == {"ThrottlingException", "InvalidRequestException"}

MetadataSettles ==
    /\ s3Metadata = "pending"
    /\ \/ /\ s3Metadata' = "fulfilled"
          /\ UNCHANGED s3MetaErr
       \/ \E err \in MetadataFaults :
            /\ s3Metadata' = "rejected"
            /\ s3MetaErr' = err
    /\ UNCHANGED <<metaSent, lvars, pvars, rvars>>

----------------------------------------------------------------------------
\* getQueryResultsFromS3

StatementTypes == {"DML", "DDL", "UTILITY"}

\* config.pagination; 0 stands for a pagination that is not set
Paginations == 0..MaxPage

NoOptions ==
    [statementType |-> None, pagination |-> 0, NextToken |-> NoToken,
     formatJson |-> FALSE, includeMetadata |-> FALSE, ignoreEmpty |-> FALSE,
     warm |-> FALSE]

\* the calls of a caller: warm tells whether context is the object the poller
\* stored its request in, or another object; ignoreEmpty is varied where it
\* is read, in the full typed retrieval
FirstCalls ==
    {opt \in [statementType : StatementTypes, pagination : Paginations,
              NextToken : {NoToken}, formatJson : BOOLEAN,
              includeMetadata : BOOLEAN, ignoreEmpty : BOOLEAN,
              warm : BOOLEAN] :
        opt.ignoreEmpty =>
            /\ opt.statementType = "DML"
            /\ opt.pagination = 0
            /\ opt.formatJson}

NoPage == [Rows |-> <<>>, NextToken |-> NoToken]

S3Faults == {"NoSuchKey"}

RInit ==
    /\ nrows = 0
    /\ malformed = FALSE
    /\ blob = <<>>
    /\ rpc = "idle"
    /\ ropt = NoOptions
    /\ freshMeta = "none"
    /\ freshErr = None
    /\ qr = NoPage
    /\ ritems = <<>>
    /\ rnext = NoToken
    /\ rmeta = None
    /\ rerror = None
    /\ pageSent = 0
    /\ s3Sent = 0
    /\ rbefore = 0

\* variant: only DDL statements are taken for non-tabular
NonTabularDDL(opt) == opt.statementType = "DDL"

NonTabular(opt) ==
    opt.statementType = "UTILITY" \/ opt.statementType = "DDL"

\* Boolean(params.config.pagination)
Paginated(opt) == opt.pagination # 0

\* variant: the header is expected on every page
paginationFactorAlways(opt) == 1

paginationFactor(opt) == IF opt.NextToken # NoToken THEN 0 ELSE 1

\* context.s3Metadata of the context the call was given
ContextMetadata(opt) == IF opt.warm THEN s3Metadata ELSE "unset"

\* variant: a metadata request whenever metadata is asked for
sendsMetadataRequestAlways(contextMetadata, includeMetadata) ==
    includeMetadata

\* whether `context.s3Metadata || (includeMetadata ? send(...) : null)` sends
\* a request
sendsMetadataRequest(contextMetadata, includeMetadata) ==
    contextMetadata = "unset" /\ includeMetadata

\* the function body up to its first await
Begin(opt) ==
    /\ ropt' = opt
    /\ ritems' = <<>>
    /\ rnext' = NoToken
    /\ rmeta' = None
    /\ qr' = NoPage
    /\ IF NonTabular(opt)
       THEN /\ rpc' = "s3get"
            /\ s3Sent' = s3Sent + 1
            /\ UNCHANGED <<pageSent, freshMeta, metaSent>>
       ELSE IF Paginated(opt)
       THEN /\ rpc' = "page"
            /\ pageSent' = pageSent + 1
            /\ UNCHANGED <<s3Sent, freshMeta, metaSent>>
       ELSE /\ IF sendsMetadataRequest(ContextMetadata(opt),
                                       opt.includeMetadata)
               THEN /\ freshMeta' = "pending"
                    /\ metaSent' = metaSent + 1
               ELSE UNCHANGED <<freshMeta, metaSent>>
            /\ rpc' = "s3get"
            /\ s3Sent' = s3Sent + 1
            /\ UNCHANGED pageSent
    /\ UNCHANGED <<freshErr, rerror, s3Metadata, s3MetaErr, lvars, pvars>>

\* the first call for the completed execution
GetQueryResultsFromS3 ==
    /\ ppc = "resolved"
    /\ rpc = "idle"
    /\ rbefore' = 0
    /\ \E opt \in FirstCalls :
         /\ Begin(opt)
         /\ nrows' \in IF NonTabular(opt) THEN {0} ELSE 0..MaxRows
         /\ malformed' \in
               IF ~NonTabular(opt) /\ opt.formatJson /\ nrows' >= MalformedRow
               THEN BOOLEAN ELSE {FALSE}
         /\ blob' \in IF NonTabular(opt) THEN NonDMLBlobs ELSE {<<>>}

\* the call for the next page, with the cursor the previous call returned
GetNextPage ==
    /\ rpc = "returned"
    /\ ~NonTabular(ropt)
    /\ Paginated(ropt)
    /\ rnext # NoToken
    /\ Begin([ropt EXCEPT !.NextToken = rnext])
    /\ rbefore' = rbefore + Len(ritems)
    /\ UNCHANGED <<nrows, malformed, blob>>

Return(items, next, meta) ==
    /\ rpc' = "returned"
    /\ ritems' = items
    /\ rnext' = next
    /\ rmeta' = meta
    /\ UNCHANGED rerror

Throw(err) ==
    /\ rpc' = "threw"
    /\ rerror' = err
    /\ UNCHANGED <<ritems, rnext, rmeta>>

\* after items of the full retrieval: the metadata property
ThenMetadata(items) ==
    IF ropt.includeMetadata
    THEN /\ rpc' = "meta"
         /\ ritems' = items
         /\ UNCHANGED <<rnext, rmeta, rerror>>
    ELSE Return(items, NoToken, None)

\* the continuation of `await s3Client.send(GetObjectCommand)`
ObjectSettles ==
    /\ rpc = "s3get"
    /\ \/ \E err \in S3Faults : Throw(err)
       \/ IF NonTabular(ropt)
          THEN Return(cleanUpNonDML(blob), NoToken, None)
          ELSE IF ropt.formatJson
          THEN /\ rpc' = "types"
               /\ UNCHANGED <<ritems, rnext, rmeta, rerror>>
          ELSE ThenMetadata(getRawResultsFromS3(nrows))
    /\ UNCHANGED <<nrows, malformed, blob, ropt, freshMeta, freshErr, qr,
                   pageSent, s3Sent, rbefore>>
    /\ UNCHANGED <<lvars, pvars, cvars>>

\* the continuation of `await athenaClient.send(GetQueryResultsCommand)` of
\* the paginated branch
PageSettles ==
    /\ rpc = "page"
    /\ \/ /\ \E err \in FaultCodes : Throw(err)
          /\ UNCHANGED qr
       \/ LET queryResults ==
                  EnginePage(nrows, ropt.pagination + paginationFactor(ropt),
                             ropt.NextToken)
          IN  /\ qr' = queryResults
              /\ IF ropt.formatJson
                 THEN /\ rpc' = "types"
                      /\ UNCHANGED <<ritems, rnext, rmeta, rerror>>
                 ELSE Return([i \in 1..Len(queryResults.Rows) |->
                                EngineRow(queryResults.Rows[i])],
                             queryResults.NextToken, ColumnInfo)
    /\ UNCHANGED <<nrows, malformed, blob, ropt, freshMeta, freshErr,
                   pageSent, s3Sent, rbefore>>
    /\ UNCHANGED <<lvars, pvars, cvars>>

\* variant: the schema is used once the request was sent
schemaFired(contextMetadata) == contextMetadata \in {"pending", "fulfilled"}

\* `await context.s3Metadata` of getDataTypes has its value
schemaJoined(contextMetadata) == contextMetadata = "fulfilled"

\* `await context.s3Metadata` of getDataTypes gets its value; the promise of
\* getDataTypes is never settled when context.s3Metadata is rejected or is
\* not a promise
DataTypesResolve ==
    /\ rpc = "types"
    /\ schemaJoined(ContextMetadata(ropt))
    /\ IF Paginated(ropt)
       THEN LET items == cleanUpPaginatedDML(qr.Rows, paginationFactor(ropt),
                                             ColumnInfo)
            IN  IF \E i \in 1..Len(items) : Threw(items[i])
                THEN Throw("SyntaxError")
                ELSE Return(items, qr.NextToken, ColumnInfo)
       ELSE LET items == cleanUpDML(nrows, ropt.ignoreEmpty, ColumnInfo)
            IN  IF \E i \in 1..Len(items) : Threw(items[i])
                THEN /\ rpc' \in {"hung", "crashed"}
                     /\ UNCHANGED <<ritems, rnext, rmeta, rerror>>
                ELSE ThenMetadata(items)
    /\ UNCHANGED <<nrows, malformed, blob, ropt, freshMeta, freshErr, qr,
                   pageSent, s3Sent, rbefore>>
    /\ UNCHANGED <<lvars, pvars, cvars>>

\* the metadata request getQueryResultsFromS3 sent itself is answered
FreshMetadataSettles ==
    /\ freshMeta = "pending"
    /\ \/ /\ freshMeta' = "fulfilled"
          /\ UNCHANGED freshErr
       \/ \E err \in MetadataFaults :
            /\ freshMeta' = "rejected"
            /\ freshErr' = err
    /\ UNCHANGED <<nrows, malformed, blob, rpc, ropt, qr, ritems, rnext,
                   rmeta, rerror, pageSent, s3Sent, rbefore>>
    /\ UNCHANGED <<lvars, pvars, cvars>>

\* `await metadataQueryPromise` gets its value or throws
MetadataJoins ==
    /\ rpc = "meta"
    /\ LET fromContext == ContextMetadata(ropt) # "unset"
           state == IF fromContext THEN s3Metadata ELSE freshMeta
           err == IF fromContext THEN s3MetaErr ELSE freshErr
       IN  /\ state \in {"fulfilled", "rejected"}
           /\ IF state = "fulfilled"
              THEN Return(ritems, NoToken, ColumnInfo)
              ELSE Throw(err)
    /\ UNCHANGED <<nrows, malformed, blob, ropt, freshMeta, freshErr, qr,
                   pageSent, s3Sent, rbefore>>
    /\ UNCHANGED <<lvars, pvars, cvars>>

RetrieveNext ==
    \/ MetadataSettles
    \/ GetQueryResultsFromS3
    \/ GetNextPage
    \/ ObjectSettles
    \/ PageSettles
    \/ DataTypesResolve
    \/ FreshMetadataSettles
    \/ MetadataJoins

----------------------------------------------------------------------------
\* The materializer alone, on one row and one column list.

\* the column lists: the one of the pipeline, a single boolean, the number
\* types, and lists in which a name occurs twice
MatSchemas ==
    { ColumnInfo,
      << [Name |-> "x", Type |-> "boolean"] >>,
      << [Name |-> "n", Type |-> "integer"],
         [Name |-> "d", Type |-> "double"],
         [Name |-> "u", Type |-> "date"] >>,
      << [Name |-> "a", Type |-> "bigint"],
         [Name |-> "b", Type |-> "varchar"],
         [Name |-> "a", Type |-> "boolean"] >>,
      << [Name |-> "a", Type |-> "varchar"],
         [Name |-> "a", Type |-> "varchar"] >> }

\* the cells: null, empty, and texts
MatCells ==
    { NoDatum, Datum(<<>>), Datum(<<"4", "2">>), Datum(<<"1">>),
      Datum(<<"0">>), Datum(<<"T", "R", "U", "E">>),
      Datum(<<"F", "a", "l", "s", "e">>), Datum(<<"n", "u", "l", "l">>),
      Datum(<<"m", "a", "y", "b", "e">>) }

\* no materializer input in the pipeline
MIdle ==
    /\ mcols = <<>>
    /\ mrow = <<>>
    /\ mrec = <<>>
    /\ mpath = None

MatInit ==
    /\ lplan = <<"q1">>
    /\ lpc = "idle"
    /\ lsent = 0
    /\ ltimer = 0
    /\ lwaited = 0
    /\ lresult = None
    /\ lchain = NoChain
    /\ PInit
    /\ CInit
    /\ RInit
    /\ mcols \in MatSchemas
    /\ mrow \in [1..Len(mcols) -> MatCells]
    /\ mrec = <<>>
    /\ mpath = None

\* one iteration of the loop of cleanUpPaginatedDML
MaterializePaginated ==
    /\ mpath = None
    /\ mcols # <<>>
    /\ mrec' = formattedRow(mrow, mcols)
    /\ mpath' = "paginated"
    /\ UNCHANGED <<mcols, mrow>>

\* one data event of cleanUpDML
MaterializeDelimited ==
    /\ mpath = None
    /\ mcols # <<>>
    /\ \E ignoreEmpty \in BOOLEAN :
         /\ mrec' = addDataType(csvObjectOf(mrow, mcols, ignoreEmpty),
                                getDataTypes(mcols))
         /\ mpath' = IF ignoreEmpty THEN "delimitedIgnoreEmpty"
                     ELSE "delimited"
    /\ UNCHANGED <<mcols, mrow>>

MatNext == MaterializePaginated \/ MaterializeDelimited

vars == <<lvars, pvars, cvars, rvars, mvars>>

Init == LInit /\ PInit /\ CInit /\ RInit /\ MIdle

Next ==
    \/ LaunchNext /\ UNCHANGED <<pvars, cvars, rvars, mvars>>
    \/ PollNext /\ UNCHANGED mvars
    \/ RetrieveNext /\ UNCHANGED mvars

\* The retriever alone, from the state in which the launcher resolved on its
\* first attempt and the poller on its first request, with an engine and an
\* object store that answer every request and continuations that run.
SucceededData == [State |-> "SUCCEEDED", StateChangeReason |-> None]

RetrieveInit ==
    /\ lplan = <<>>
    /\ lpc = "resolved"
    /\ lsent = 1
    /\ ltimer = 0
    /\ lwaited = 0
    /\ lresult = "q1"
    /\ lchain = [requests |-> 0, timers |-> 0, settles |-> 1]
    /\ cfgRetry = 200
    /\ retry = 200
    /\ ppc = "resolved"
    /\ psent = 1
    /\ ptimer = 0
    /\ pwaited = 0
    /\ pnonterm = 0
    /\ pfaults = 0
    /\ plast = StatusAnswer(SucceededData)
    /\ presolved = SucceededData
    /\ prejected = None
    /\ pchain = [requests |-> 0, timers |-> 0, settles |-> 1]
    /\ s3Metadata = "pending"
    /\ s3MetaErr = None
    /\ metaSent = 1
    /\ RInit
    /\ MIdle

RetrieveStep == RetrieveNext /\ UNCHANGED mvars

RetrieveSpec ==
    /\ RetrieveInit
    /\ [][RetrieveStep]_vars
    /\ WF_vars(MetadataSettles /\ UNCHANGED mvars)
    /\ WF_vars(FreshMetadataSettles /\ UNCHANGED mvars)
    /\ WF_vars(ObjectSettles /\ UNCHANGED mvars)
    /\ WF_vars(PageSettles /\ UNCHANGED mvars)
    /\ WF_vars(DataTypesResolve /\ UNCHANGED mvars)
    /\ WF_vars(MetadataJoins /\ UNCHANGED mvars)

\* The materializer applied to every row over every column list.
MatStep == MatNext /\ UNCHANGED <<lvars, pvars, cvars, rvars>>

MatSpec == MatInit /\ [][MatStep]_vars

Spec == Init /\ [][Next]_vars

\* The launcher alone, with an engine that answers every attempt of its plan
\* and timers that fire.
LaunchStep == LaunchNext /\ UNCHANGED <<pvars, cvars, rvars, mvars>>

LaunchSpec ==
    /\ Init
    /\ [][LaunchStep]_vars
    /\ WF_vars(StartQueryExecution /\ UNCHANGED <<pvars, cvars, rvars, mvars>>)
    /\ WF_vars(SubmitSettles /\ UNCHANGED <<pvars, cvars, rvars, mvars>>)
    /\ WF_vars(SubmitTimerFires /\ UNCHANGED <<pvars, cvars, rvars, mvars>>)

----------------------------------------------------------------------------
\* Properties.

\* the engine is about to answer the attempts with transient faults only and
\* then with the id
PlanSucceedsWith(id) ==
    /\ lpc = "idle"
    /\ lplan # <<>>
    /\ lplan[Len(lplan)] = id
    /\ \A i \in 1..(Len(lplan) - 1) : lplan[i] \in TransientCodes

\* C1: whenever the engine answers the first N submission attempts with
\* transient faults and the next one with an id, the promise of
\* startQueryExecution is eventually resolved with that id, for every N up to
\* MaxFaults.
C1_SubmissionEventuallyResolves ==
    \A id \in Ids :
        PlanSucceedsWith(id) ~> (lpc = "resolved" /\ lresult = id)

\* the launcher resolved on its third attempt, after two waits
C1_ResolvedAfterTwoFaults ==
    lpc = "resolved" /\ lsent = 3 /\ lwaited = 4000 /\ lresult = "q2"

\* C2: an attempt answered with a fault outside the transient set rejects the
\* promise with that fault, and from then on no request is sent and no timer
\* is pending.
C2_FatalFaultRejectsAtOnce ==
    [][ /\ ( /\ lpc = "inflight"
             /\ lplan # <<>>
             /\ lplan' # lplan
             /\ Head(lplan) \in FaultCodes \ TransientCodes )
           => ( /\ lpc' = "rejected"
                /\ lresult' = Head(lplan)
                /\ ltimer' = 0
                /\ lsent' = lsent )
        /\ lpc = "rejected"
           => (lpc' = "rejected" /\ lsent' = lsent /\ ltimer' = 0
               /\ lresult' = lresult)
      ]_vars

\* the launcher rejected on its second attempt with a fault without a code
C2_RejectedOnSecondAttempt ==
    lpc = "rejected" /\ lresult = "NoCode" /\ lsent = 2 /\ ltimer = 0

\* C3: when no status request was answered with a fault, every wait is the
\* configured interval, and a poller resolved after k statuses that are not
\* terminal has sent k+1 requests, waited k times the interval, and resolved
\* with the SUCCEEDED data.
C3_HealthyPollCount ==
    pfaults = 0 =>
        /\ ppc = "timer" => ptimer = cfgRetry
        /\ ppc = "resolved" =>
            /\ psent = pnonterm + 1
            /\ pwaited = pnonterm * cfgRetry
            /\ presolved.State = "SUCCEEDED"
            /\ plast = StatusAnswer(presolved)

\* the poller resolved on its third request after two statuses that are not
\* terminal
C3_ResolvedOnThirdPoll ==
    /\ ppc = "resolved"
    /\ pfaults = 0
    /\ pnonterm = 2
    /\ psent = 3
    /\ cfgRetry = 200
    /\ pwaited = 400

\* C4: when a status request is answered FAILED, the promise is rejected
\* with the engine's StateChangeReason, nothing is left pending (no timer, no
\* request) and context.s3Metadata stays unset, no metadata request sent.
C4_FailedRejectsWithReason ==
    (plast.kind = "status" /\ plast.State = "FAILED") =>
        /\ ppc = "rejected"
        /\ prejected = plast.detail
        /\ ptimer = 0
        /\ s3Metadata = "unset"
        /\ metaSent = 0

\* the poller was answered FAILED on its second request
C4_FailedOnSecondPoll ==
    /\ plast.kind = "status"
    /\ plast.State = "FAILED"
    /\ prejected = "Insufficient permissions"
    /\ psent = 2

\* C5: after a transient fault, once a status request is answered with a
\* status that is not terminal, the wait before the next request is the
\* configured interval.
C5_IntervalRestoredAfterStatus ==
    (ppc = "timer" /\ plast.kind = "status") => ptimer = cfgRetry

\* C6: in the launcher and in the poller the wait after a transient fault is
\* 2000ms whatever the configured interval, and the request after a transient
\* fault is sent by the timer of that wait only.
C6_FixedWaitAfterTransientFault ==
    [][ /\ lpc' = "timer" => ltimer' = 2000
        /\ (ppc' = "timer" /\ plast'.kind = "fault") => ptimer' = 2000
        /\ (lsent' # lsent /\ lsent > 0) =>
              (lpc = "timer" /\ ltimer = 2000 /\ lwaited' = lwaited + 2000)
        /\ (psent' # psent /\ plast.kind = "fault") =>
              (ppc = "timer" /\ ptimer = 2000 /\ pwaited' = pwaited + 2000)
      ]_vars

\* both the launcher and a poller configured with 5000ms sent their second
\* request after a transient fault and a wait of 2000ms
C6_SecondRequestsAfterFaults ==
    /\ lsent = 2
    /\ lwaited = 2000
    /\ cfgRetry = 5000
    /\ plast.kind = "fault"
    /\ ppc = "inflight"
    /\ psent = 2
    /\ pwaited = 2000

\* C7: no promise of the pipeline is rejected with a transient fault.
C7_TransientFaultNeverSurfaced ==
    /\ lpc = "rejected" => lresult \notin TransientCodes
    /\ ppc = "rejected" => prejected \notin TransientCodes
    /\ rpc = "threw" => rerror \notin TransientCodes

\* the names of the columns in the engine's order
ColumnNames == [j \in 1..Len(ColumnInfo) |-> ColumnInfo[j].Name]

\* the typed record of the k-th data row, its cells matched to the columns in
\* the engine's order
RecordOfDataRow(k) ==
    addDataType(rowObjectOf(EngineRow(k + 1), ColumnNames),
                getDataTypes(ColumnInfo))

TypedPageCall ==
    ~NonTabular(ropt) /\ Paginated(ropt) /\ ropt.formatJson

\* C8: a typed page of size P returned after pages that returned rbefore
\* records holds the records of the next min(P, rest) data rows in the
\* engine's order, never the header, with the engine's cursor, which is
\* absent exactly when no data row is left; materialization of a page of a
\* well-formed result does not fail.
C8_TypedPagesCoverRowsOnce ==
    /\ (rpc = "returned" /\ TypedPageCall) =>
         LET n == Min(ropt.pagination, nrows - rbefore) IN
           /\ Len(ritems) = n
           /\ \A i \in 1..n : ritems[i] = RecordOfDataRow(rbefore + i)
           /\ rnext = qr.NextToken
           /\ rnext = NoToken <=> rbefore + n = nrows
    /\ (rpc = "threw" /\ TypedPageCall /\ ~malformed) =>
         rerror \in FaultCodes

\* the second typed page of size 2 of a result of 5 data rows was returned
C8_SecondPageOfFive ==
    /\ rpc = "returned"
    /\ TypedPageCall
    /\ ropt.pagination = 2
    /\ nrows = 5
    /\ rbefore = 2
    /\ Len(ritems) = 2
    /\ rnext # NoToken

\* C9: a raw first page (no cursor) of size P holds min(P, R) data rows and
\* not the header row.
C9_RawFirstPageSkipsHeader ==
    ( /\ rpc = "returned"
      /\ ~NonTabular(ropt)
      /\ Paginated(ropt)
      /\ ~ropt.formatJson
      /\ ropt.NextToken = NoToken ) =>
        /\ Len(ritems) = Min(ropt.pagination, nrows)
        /\ \A i \in 1..Len(ritems) : ritems[i] # HeaderRow

\* the value the materialization is to give for a cell of a declared type
ClaimedValue(type, datum) ==
    IF ~datum.has \/ datum.VarCharValue = <<>> THEN JsNull
    ELSE IF type = "boolean"
    THEN JsBool(toLowerCase(datum.VarCharValue) = <<"t", "r", "u", "e">>)
    ELSE IF type = "bigint" THEN JsBigInt(DigitsValue(datum.VarCharValue))
    ELSE IF type \in NumberTypes
    THEN JsNumber(DigitsValue(datum.VarCharValue))
    ELSE JsString(datum.VarCharValue)

\* the record with one entry for each declared column, for the k-th data row
ClaimedRecord(k) ==
    [name \in {ColumnInfo[j].Name : j \in 1..Len(ColumnInfo)} |->
        LET j == CHOOSE h \in 1..Len(ColumnInfo) : ColumnInfo[h].Name = name
        IN  ClaimedValue(ColumnInfo[j].Type, EngineRow(k + 1)[j])]

\* C10: every typed record returned, by the delimited-text path (without
\* ignoreEmpty) and by the structured-row path, has one entry for each
\* declared column: null for an absent or empty value, else the value coerced
\* by the declared type.
C10_RecordHasEveryDeclaredColumn ==
    ( /\ rpc = "returned"
      /\ ~NonTabular(ropt)
      /\ ropt.formatJson
      /\ ~ropt.ignoreEmpty ) =>
        \A i \in 1..Len(ritems) :
            ritems[i] = ClaimedRecord(IF Paginated(ropt) THEN rbefore + i
                                      ELSE i)

\* a text other than a spelling of true or false
NotBooleanText(str) ==
    /\ str # <<>>
    /\ toLowerCase(str) # <<"t", "r", "u", "e">>
    /\ toLowerCase(str) # <<"f", "a", "l", "s", "e">>

\* no name occurs twice in the column list
DistinctNames(cols) ==
    \A i, j \in 1..Len(cols) : cols[i].Name = cols[j].Name => i = j

\* C11: materialization of a row that has, in a column declared boolean, a
\* non-empty text other than a spelling of true or false fails with an error.
C11_NonBooleanTextFails ==
    ( /\ mpath \in {"paginated", "delimited"}
      /\ DistinctNames(mcols)
      /\ \E j \in 1..Len(mcols) :
            /\ mcols[j].Type = "boolean"
            /\ mrow[j].has
            /\ NotBooleanText(mrow[j].VarCharValue) ) =>
        Threw(mrec)

\* the record holds, for every cell that has a value, an entry under the name
\* of the column at the cell's position, and every entry is the value of a
\* cell at a position of that name, coerced with the type of that position
MatchedByPosition(record, Data, cols) ==
    /\ \A j \in 1..Len(Data) : Data[j].has => cols[j].Name \in DOMAIN record
    /\ \A key \in DOMAIN record :
          \E j \in 1..Len(Data) :
              /\ Data[j].has
              /\ cols[j].Name = key
              /\ record[key] = typedValue(cols[j].Type, Data[j].VarCharValue)

\* C18: the paginated typed path stores the value at position j of a row under
\* the name of column j with the type of column j, for every column list,
\* lists with a repeated name included.
C18_CellsMatchedByPosition ==
    mpath = "paginated" => MatchedByPosition(mrec, mrow, mcols)

\* the typed call in progress has the malformed cell among the rows it
\* materializes
CoercionFails ==
    /\ rpc # "idle"
    /\ ~NonTabular(ropt)
    /\ ropt.formatJson
    /\ malformed
    /\ Paginated(ropt) =>
          (rbefore < MalformedRow /\ MalformedRow <= rbefore + ropt.pagination)

\* C12: a typed retrieval in which the coercion of a cell fails does not
\* return, with partial items or otherwise, and is not left without
\* settlement: once the rows are materialized it is rejected with the error.
C12_CoercionFailureRejects ==
    CoercionFails =>
        /\ rpc \notin {"returned", "meta", "hung", "crashed"}
        /\ rpc = "threw" =>
              rerror \in {"SyntaxError"} \cup FaultCodes \cup S3Faults

\* a full (not paginated) retrieval of the rows, given the context the poller
\* stored its request in
WarmFullCall ==
    /\ rpc # "idle"
    /\ ropt.statementType = "DML"
    /\ ropt.pagination = 0
    /\ ropt.warm

\* C13: a full retrieval given the poller's context sends no metadata
\* request of its own, the poller's being the only one of the execution, and
\* what it returns of schema and metadata comes from that request.
C13_CachedSchemaNotFetchedAgain ==
    WarmFullCall =>
        /\ metaSent = 1
        /\ freshMeta = "none"
        /\ (rpc = "returned" /\ (ropt.formatJson \/ ropt.includeMetadata)) =>
              s3Metadata = "fulfilled"
        /\ (rpc = "returned" /\ ropt.includeMetadata) => rmeta = ColumnInfo
        /\ (rpc = "returned" /\ ~ropt.includeMetadata) => rmeta = None

\* a full typed retrieval with metadata returned from the poller's request
C13_WarmTypedWithMetadata ==
    /\ WarmFullCall
    /\ rpc = "returned"
    /\ ropt.formatJson
    /\ ropt.includeMetadata
    /\ nrows = 3
    /\ Len(ritems) = 3
    /\ rmeta = ColumnInfo

\* C14: every call follows one strategy: a UTILITY or DDL statement reads
\* the blob and gives the non-tabular items, whatever pagination is; else a
\* pagination that is set fetches pages from the engine and never reads the
\* blob; else the blob is read and no page fetched; items are typed exactly
\* when formatJson is set.
C14_OneStrategyPerCall ==
    rpc # "idle" =>
        LET nontabular == ropt.statementType \in {"UTILITY", "DDL"}
            paged == ropt.pagination # 0
            factor == IF ropt.NextToken = NoToken THEN 1 ELSE 0
        IN  /\ ~(s3Sent > 0 /\ pageSent > 0)
            /\ nontabular =>
                 /\ s3Sent = 1 /\ pageSent = 0
                 /\ rpc \in {"s3get", "returned", "threw"}
                 /\ rpc = "returned" =>
                      (ritems = cleanUpNonDML(blob) /\ rmeta = None)
            /\ (~nontabular /\ paged) =>
                 /\ s3Sent = 0 /\ pageSent >= 1
                 /\ rpc \in {"page", "types", "returned", "threw"}
                 /\ rpc = "returned" =>
                      ritems = IF ropt.formatJson
                               THEN cleanUpPaginatedDML(qr.Rows, factor,
                                                        ColumnInfo)
                               ELSE [i \in 1..Len(qr.Rows) |->
                                        EngineRow(qr.Rows[i])]
            /\ (~nontabular /\ ~paged) =>
                 /\ s3Sent = 1 /\ pageSent = 0
                 /\ rpc # "page"
                 /\ rpc = "returned" =>
                      ritems = IF ropt.formatJson
                               THEN cleanUpDML(nrows, ropt.ignoreEmpty,
                                               ColumnInfo)
                               ELSE getRawResultsFromS3(nrows)

\* a UTILITY statement with pagination set returned the non-tabular items
C14_UtilityWithPagination ==
    /\ rpc = "returned"
    /\ ropt.statementType = "UTILITY"
    /\ ropt.pagination = 2
    /\ ropt.formatJson
    /\ s3Sent = 1
    /\ pageSent = 0
    /\ Len(ritems) = 3

\* the line is empty or white space only
Blank(line) == \A i \in 1..Len(line) : line[i] \in WhiteSpace

\* the item of a line that is not blank: key and value of a line with a tab,
\* else the trimmed line under row
ItemOfLine(line) ==
    IF \E i \in 1..Len(line) : line[i] = "\t"
    THEN LET tab == CHOOSE i \in 1..Len(line) :
                        line[i] = "\t" /\ \A h \in 1..(i - 1) : line[h] # "\t"
             rest == SubSeq(line, tab + 1, Len(line))
             next == IF \E i \in 1..Len(rest) : rest[i] = "\t"
                     THEN (CHOOSE i \in 1..Len(rest) :
                            rest[i] = "\t"
                            /\ \A h \in 1..(i - 1) : rest[h] # "\t")
                     ELSE Len(rest) + 1
         IN  [key |-> trim(SubSeq(line, 1, tab - 1)),
              val |-> trim(SubSeq(rest, 1, next - 1))]
    ELSE [key |-> <<"r", "o", "w">>, val |-> trim(line)]

\* the items of the lines that are not blank, in their order
RECURSIVE ItemsOfLines(_)
ItemsOfLines(lines) ==
    IF lines = <<>> THEN <<>>
    ELSE (IF Blank(Head(lines)) THEN <<>> ELSE <<ItemOfLine(Head(lines))>>)
            \o ItemsOfLines(Tail(lines))

\* C15: the non-tabular items are the items of the lines of the blob that are
\* not blank, in the order of the lines.
C15_ItemsOfNonBlankLines ==
    (rpc = "returned" /\ ropt.statementType \in {"UTILITY", "DDL"}) =>
        ritems = ItemsOfLines(blob)

TypedCall == ropt.statementType = "DML" /\ ropt.formatJson

\* C16: the poller resolves while its schema request is still pending, and
\* in every interleaving the retrieval leaves its wait for the schema, and
\* holds typed items, only when that request is fulfilled.
C16_SchemaJoinedBeforeUse ==
    [][ /\ (ppc # "resolved" /\ ppc' = "resolved") => s3Metadata' = "pending"
        /\ (rpc = "types" /\ rpc' # "types") =>
              (ropt.warm /\ s3Metadata = "fulfilled")
        /\ (TypedCall' /\ rpc' \in {"meta", "returned"}) =>
              (ropt'.warm /\ s3Metadata' = "fulfilled")
      ]_vars

\* a typed retrieval waits for the schema request, which is still pending
C16_RetrievalWaitsForSchema ==
    /\ ppc = "resolved"
    /\ rpc = "types"
    /\ ropt.warm
    /\ s3Metadata = "pending"
    /\ nrows = 2
    /\ ritems = <<>>

\* C17: a full typed retrieval of a well-formed result eventually settles,
\* with items or with an error, whatever the state of the schema cache.
C17_FullTypedRetrievalSettles ==
    ( /\ rpc = "s3get"
      /\ TypedCall
      /\ ropt.pagination = 0
      /\ ~malformed ) ~> (rpc \in {"returned", "threw"})

\* C19: the poller resolves only on SUCCEEDED and rejects only on FAILED or
\* with a fault that is not transient; every other answer, CANCELLED
\* included, leaves the promise unsettled with a timer pending, and a timer
\* only ever leads to one more status request.
C19_SettlesOnlyOnTerminalAnswers ==
    [][ /\ ppc' = "resolved" =>
              (plast'.kind = "status" /\ plast'.State = "SUCCEEDED")
        /\ ppc' = "rejected" =>
              \/ /\ plast'.kind = "status"
                 /\ plast'.State = "FAILED"
              \/ /\ plast'.kind = "fault"
                 /\ plast'.detail \notin TransientCodes
                 /\ prejected' = plast'.detail
        /\ ( /\ ppc = "inflight"
             /\ ppc' # "inflight"
             /\ \/ /\ plast'.kind = "status"
                   /\ plast'.State \notin {"SUCCEEDED", "FAILED"}
                \/ /\ plast'.kind = "fault"
                   /\ plast'.detail \in TransientCodes ) =>
              (ppc' = "timer" /\ ptimer' > 0)
        /\ (ppc = "timer" /\ ppc' # "timer") =>
              (ppc' = "inflight" /\ psent' = psent + 1)
      ]_vars

\* the engine answered CANCELLED to three requests and the poller still has
\* a timer pending
C19_StillPollingAfterCancelled ==
    /\ plast.kind = "status"
    /\ plast.State = "CANCELLED"
    /\ pfaults = 0
    /\ pnonterm = 3
    /\ psent = 3
    /\ ppc = "timer"
    /\ ptimer = cfgRetry

\* one retry chain: one item outstanding at most, one settlement at most,
\* nothing outstanding once settled
SingleChain(chain) ==
    /\ chain.requests + chain.timers <= 1
    /\ chain.settles <= 1
    /\ chain.settles = 1 => (chain.requests = 0 /\ chain.timers = 0)

\* C20: each invocation of the launcher and of the poller has at most one
\* request in flight or one timer pending, settles its promise at most once,
\* and once settled sends no further request and keeps no timer.
C20_SingleRetryChain ==
    [][ /\ SingleChain(lchain')
        /\ SingleChain(pchain')
        /\ lchain.settles = 1 =>
              (lsent' = lsent /\ ltimer' = 0 /\ lchain' = lchain)
        /\ pchain.settles = 1 =>
              (psent' = psent /\ ptimer' = 0 /\ pchain' = pchain)
      ]_vars

\* both chains retried twice, through a timer each time, and have settled
C20_BothSettledAfterRetries ==
    /\ lchain = [requests |-> 0, timers |-> 0, settles |-> 1]
    /\ lsent = 3
    /\ lwaited = 2 * ThrottleWait
    /\ pchain = [requests |-> 0, timers |-> 0, settles |-> 1]
    /\ psent = 3
    /\ pfaults = 1
    /\ pnonterm = 1
====
